---- MODULE Spec2Model ----
(***************************************************************************)
(* A model of the quote-generator web application (src/app.py,             *)
(* src/models.py, src/forms.py).                                           *)
(*                                                                         *)
(* The relational store holds four tables.  Every request handler is a    *)
(* sequence of SQL statements; a statement outside `with db.atomic()` is   *)
(* committed on its own (autocommit), the statements inside one are        *)
(* buffered in the request's transaction and become visible at its end,    *)
(* or are discarded when an exception leaves the block.  Requests of       *)
(* several sessions are served concurrently, so handlers interleave        *)
(* between statements.                                                     *)
(***************************************************************************)
EXTENDS Integers, Sequences, FiniteSets, Bags, TLC

VARIABLES
    colls,      \* table collection: set of rows [id, name, user]
    quotes,     \* table quote: set of rows [id, content, author, user]
    qc,         \* table quotecollection: bag of rows [quote, collection]
    nextCid,    \* the serial of collection.id
    nextQid,    \* the next fresh quote id (gen_id)
    th,         \* the requests being served: one record per worker
    resp,       \* the last response sent
    nreq,       \* number of requests received so far
    users,      \* table user: set of rows [id, email, password]
    clock,      \* int(time.time())
    nticks,     \* number of clock advances so far
    issued,     \* recovery tokens the application has signed and mailed
    aresp       \* the last response of the account handlers

storeVars == <<colls, quotes, qc, nextCid, nextQid, th, resp, nreq>>
authVars  == <<users, clock, nticks, issued, aresp>>
vars      == <<colls, quotes, qc, nextCid, nextQid, th, resp, nreq,
               users, clock, nticks, issued, aresp>>

(***************************************************************************)
(* Bounds.                                                                 *)
(***************************************************************************)
MaxReq  == 5    \* requests received in one run
MaxCid  == 2    \* collections ever created
MaxQid  == 1    \* quotes ever created
MaxLen  == 2    \* length of a submitted collection-name list
MaxTicks == 3   \* clock advances in one run

Workers  == {1, 2}
UserIds  == {"A", "B"}
Names    == {"x", "y"}
BadNames == {"", "no way"}
Texts    == {[content |-> "hi", author |-> "bob"],
             [content |-> "yo", author |-> "amy"]}
NoText   == [content |-> "", author |-> ""]
NameLists == UNION {[1..n -> Names] : n \in 0..MaxLen}
QuoteIds == 1..MaxQid
Methods  == {"GET", "POST"}

Range(s) == {s[i] : i \in DOMAIN s}

(***************************************************************************)
(* Rows, forms and the record of a request being served.                   *)
(***************************************************************************)
Row(q, c) == [quote |-> q, collection |-> c]

QuoteRow(id, text, u) ==
    [id |-> id, content |-> text.content, author |-> text.author, user |-> u]

\* A request being served: the handler's position and its local variables
\* (quote: quote.id; coll: collection.id; text, names, name: the form's data
\* still to be used; qcs: quote_collections; i: the loop's position; txq, txm:
\* the rows its open transaction has inserted; rows: the row count of the
\* first DELETE of delete_instance)
Idle == [pc |-> "idle", op |-> "none", user |-> "", quote |-> 0, coll |-> 0,
         text |-> NoText, names |-> <<>>, name |-> "", qcs |-> {}, i |-> 0,
         txq |-> {}, txm |-> {}, rows |-> 0]

\* What a response shows: the flashed message, else the page or the status
NoResp == ""

\* The forms a client can submit to quote(); a GET submits none
QuoteForms ==
    [method : {"POST"}, id : 0..MaxQid, del : BOOLEAN,
     text : Texts \cup {NoText}, names : NameLists]
    \cup {[method |-> "GET", id |-> 0, del |-> FALSE, text |-> NoText,
           names |-> <<>>]}

\* The forms a client can submit to collection(); a GET submits none
CollectionForms ==
    [method : {"POST"}, del : BOOLEAN, name : Names \cup BadNames]
    \cup {[method |-> "GET", del |-> FALSE, name |-> ""]}

(***************************************************************************)
(* Form validation (src/forms.py).                                         *)
(***************************************************************************)
\* TextAreaField('Quote', [InputRequired(), ...])
ContentValid(content) == content # ""

\* SelectMultipleField.pre_validate: every submitted value is a choice
ChoicesValid(names, choices) == \A i \in DOMAIN names : names[i] \in choices

\* QuoteAddForm / QuoteEditForm .validate_on_submit()
QuoteFormValid(method, text, names, choices) ==
    /\ method = "POST"
    /\ ContentValid(text.content)
    /\ ChoicesValid(names, choices)

\* CollectionAddForm.name: InputRequired, Length(min=1), Regexp
NameValid(name) == name \notin BadNames

(***************************************************************************)
(* Queries.                                                                *)
(***************************************************************************)
\* Collection.select().where(Collection.user == current_user.get_id())
Choices(u) == {c.name : c \in {d \in colls : d.user = u}}

\* A lookup by id alone, which the owner filter of Quote.get is compared with
GetQuoteAnyUser(id, u) == {q \in quotes : q.id = id}

\* Quote.get(Quote.id == quote_id, Quote.user == current_user.get_id())
GetQuote(id, u) == {q \in quotes : q.id = id /\ q.user = u}

\* Collection.select().join(QuoteCollection).where(QuoteCollection.quote == quote)
QuoteCollectionNames(id) ==
    {c.name : c \in {d \in colls : Row(id, d.id) \in BagToSet(qc)}}

\* Collection.get(Collection.name == name, Collection.user == current_user)
GetCollectionOwned(name, u) == {c \in colls : c.name = name /\ c.user = u}

\* Collection.get(Collection.name == collection_name)
GetCollectionByName(name) == {c \in colls : c.name = name}

\* Quote.select().join(QuoteCollection).join(Collection)
\*      .where(Collection.name == collection_name)
QuotesOfCollectionName(name) ==
    {q \in quotes : \E c \in colls :
        c.name = name /\ Row(q.id, c.id) \in BagToSet(qc)}

(***************************************************************************)
(* Constraints of the schema (src/models.py).                              *)
(***************************************************************************)
\* A name column without its unique index
NameTakenNever(name, id) == FALSE

\* Collection.name = CharField(unique=True)
NameTaken(name, id) == \E c \in colls : c.name = name /\ c.id # id

\* QuoteCollection indexes = ((('quote', 'collection'), True),)
PairTaken(row, own) == row \in BagToSet(qc) \/ row \in own

\* QuoteCollection.quote = ForeignKeyField(Quote), on insert
QuoteMissing(id, own) == ~ \E q \in quotes \cup own : q.id = id

\* QuoteCollection.collection = ForeignKeyField(Collection), on insert
CollMissing(id) == ~ \E c \in colls : c.id = id

\* A quote table whose rows no foreign key protects
QuoteReferencedNever(id) == FALSE

\* ForeignKeyField(Quote): a referenced quote row cannot be deleted
QuoteReferenced(id) == \E r \in BagToSet(qc) : r.quote = id

\* ForeignKeyField(Collection): a referenced collection row cannot be deleted
CollReferenced(id) == \E r \in BagToSet(qc) : r.collection = id

\* Row locks: an uncommitted membership row holds a key-share lock on the
\* quote and the collection it references, and its index entry
QuoteLocked(id) == \E u \in Workers : \E r \in th[u].txm : r.quote = id
CollLocked(id)  == \E u \in Workers : \E r \in th[u].txm : r.collection = id
PairLockedBy(row, t) == {u \in Workers \ {t} : row \in th[u].txm}

\* DELETE FROM quotecollection WHERE <the row is one of gone>
DeleteRows(gone) ==
    LET left == BagToSet(qc) \ gone
    IN  [r \in left |-> qc[r]]

RowCount(b) == BagCardinality(b)

(***************************************************************************)
(* Receiving a request and ending it.                                      *)
(***************************************************************************)
\* A request is received and handed to the first free worker
Accept == nreq < MaxReq /\ nreq' = nreq + 1

Free(t) == th[t].pc = "idle" /\ \A u \in Workers : u < t => th[u].pc # "idle"

Step(t, rec) == th' = [th EXCEPT ![t] = rec] /\ UNCHANGED authVars

\* The response of a request that its first statement answers
Answer(outcome) ==
    /\ resp' = outcome
    /\ th' = th
    /\ UNCHANGED authVars

\* The response of worker t's request
Finish(t, outcome) ==
    /\ resp' = outcome
    /\ th' = [th EXCEPT ![t] = Idle]
    /\ UNCHANGED authVars

\* A block without a transaction: its statements stay when an exception
\* leaves it
RollbackKeep(before, after) == after

\* An exception leaves `with db.atomic()`: the table is as it was before the
\* block, not as the block's statements left it
Rollback(before, after) == before

\* An exception nobody catches ends worker t's request
Raise(t) ==
    /\ Finish(t, "500")
    /\ quotes' = Rollback(quotes, quotes \cup th[t].txq)
    /\ qc' = Rollback(qc, qc (+) SetToBag(th[t].txm))
    /\ UNCHANGED <<colls, nextCid, nextQid, nreq>>

(***************************************************************************)
(* POST /quotes: quotes()                                                  *)
(***************************************************************************)
\* form.collections.choices, validate_on_submit, Quote.create in db.atomic()
QuotesPost(t, u, text, names) ==
    /\ Free(t)
    /\ Accept
    /\ IF ~ QuoteFormValid("POST", text, names, Choices(u))
       THEN /\ Answer("quotes.html")
            /\ UNCHANGED nextQid
       ELSE /\ nextQid <= MaxQid
            /\ nextQid' = nextQid + 1
            /\ Step(t, [Idle EXCEPT
                    !.pc = IF names = <<>> THEN "cq_commit" ELSE "cq_get",
                    !.op = "quotes", !.user = u, !.names = names, !.i = 1,
                    !.quote = nextQid,
                    !.txq = {QuoteRow(nextQid, text, u)}])
            /\ UNCHANGED resp
    /\ UNCHANGED <<colls, quotes, qc, nextCid>>

\* Collection.get(name, user) inside the loop of quotes()
QuotesGetCollection(t) ==
    /\ th[t].pc = "cq_get"
    /\ LET found == GetCollectionOwned(th[t].names[th[t].i], th[t].user)
       IN  IF found = {}
           THEN Raise(t)
           ELSE /\ \E c \in found :
                     Step(t, [th[t] EXCEPT !.pc = "cq_ins", !.coll = c.id])
                /\ UNCHANGED <<colls, quotes, qc, nextCid, nextQid, nreq, resp>>

\* The INSERT of QuoteCollection.create: it waits for a concurrent insert of
\* the same pair, then checks the foreign keys and the unique index
InsertMembership(t, pcGet, pcCommit) ==
    LET row == Row(th[t].quote, th[t].coll)
    IN  /\ PairLockedBy(row, t) = {}
        /\ IF \/ QuoteMissing(row.quote, th[t].txq)
              \/ CollMissing(row.collection)
              \/ PairTaken(row, th[t].txm)
           THEN Raise(t)
           ELSE /\ Step(t, [th[t] EXCEPT
                        !.pc = IF th[t].i = Len(th[t].names)
                               THEN pcCommit ELSE pcGet,
                        !.i = th[t].i + 1,
                        !.coll = 0,
                        !.txm = th[t].txm \cup {row}])
                /\ UNCHANGED <<colls, quotes, qc, nextCid, nextQid, nreq, resp>>

\* QuoteCollection.create(quote, collection) inside the loop of quotes()
QuotesInsertMembership(t) ==
    /\ th[t].pc = "cq_ins"
    /\ InsertMembership(t, "cq_get", "cq_commit")

\* The end of `with db.atomic()` of quotes(): commit, redirect
QuotesCommit(t) ==
    /\ th[t].pc = "cq_commit"
    /\ quotes' = quotes \cup th[t].txq
    /\ qc' = qc (+) SetToBag(th[t].txm)
    /\ Finish(t, "302 quotes")
    /\ UNCHANGED <<colls, nextCid, nextQid, nreq>>

(***************************************************************************)
(* GET|POST /quotes/<quote_id>: quote()                                    *)
(***************************************************************************)
\* Quote.get(id, user) or 'Quote not found'
QuoteRequest(t, u, id) ==
    /\ Free(t)
    /\ Accept
    /\ LET found == GetQuote(id, u)
       IN  IF found = {}
           THEN Answer("Quote not found")
           ELSE /\ \E q \in found :
                     Step(t, [Idle EXCEPT !.pc = "q_colls", !.op = "quote",
                                          !.user = u, !.quote = q.id])
                /\ UNCHANGED resp
    /\ UNCHANGED <<colls, quotes, qc, nextCid, nextQid>>

\* quote_collections = [collection.name for collection in ...]
QuoteReadCollections(t) ==
    /\ th[t].pc = "q_colls"
    /\ Step(t, [th[t] EXCEPT !.pc = "q_form",
                             !.qcs = QuoteCollectionNames(th[t].quote)])
    /\ UNCHANGED <<colls, quotes, qc, nextCid, nextQid, nreq, resp>>

\* form.collections.choices, validate_on_submit, the id check, the branch on
\* form_delete.  The request's form is read here for the first time.
QuoteForm(t, form) ==
    /\ th[t].pc = "q_form"
    /\ IF ~ QuoteFormValid(form.method, form.text, form.names,
                           Choices(th[t].user))
       THEN Finish(t, "quote.html")
       ELSE IF form.id # th[t].quote
       THEN Finish(t, "Quote ID mismatch!")
       ELSE IF form.del
       THEN /\ Step(t, [th[t] EXCEPT !.pc = "dq_members", !.qcs = {}])
            /\ UNCHANGED resp
       ELSE /\ Step(t, [th[t] EXCEPT !.pc = "uq_save", !.text = form.text,
                                     !.names = form.names])
            /\ UNCHANGED resp
    /\ UNCHANGED <<colls, quotes, qc, nextCid, nextQid, nreq>>

\* quote.delete_instance(recursive=True), first statement:
\* DELETE FROM quotecollection WHERE quote_id = id
QuoteDeleteMemberships(t) ==
    /\ th[t].pc = "dq_members"
    /\ LET gone == {r \in BagToSet(qc) : r.quote = th[t].quote}
       IN  /\ qc' = DeleteRows(gone)
           /\ Step(t, [th[t] EXCEPT !.pc = "dq_quote",
                         !.rows = RowCount(qc) - RowCount(DeleteRows(gone))])
    /\ UNCHANGED <<colls, quotes, nextCid, nextQid, nreq, resp>>

\* quote.delete_instance(recursive=True), second statement:
\* DELETE FROM quote WHERE id = id
QuoteDeleteRow(t) ==
    /\ th[t].pc = "dq_quote"
    /\ ~ QuoteLocked(th[t].quote)
    /\ IF QuoteReferenced(th[t].quote)
       THEN Raise(t)
       ELSE /\ quotes' = {q \in quotes : q.id # th[t].quote}
            /\ Finish(t, "Quote deleted.")
            /\ UNCHANGED <<colls, qc, nextCid, nextQid, nreq>>

\* A comparison of the two lists by their sizes alone
CollectionsDifferBySize(qcs, names) == Cardinality(qcs) # Len(names)

\* set(quote_collections) != set(form.collections.data)
CollectionsDiffer(qcs, names) == qcs # Range(names)

\* quote.content = ...; quote.author = ...; quote.save(); then the comparison
QuoteSave(t) ==
    /\ th[t].pc = "uq_save"
    /\ quotes' = {IF q.id = th[t].quote
                  THEN QuoteRow(q.id, th[t].text, th[t].user)
                  ELSE q : q \in quotes}
    /\ IF CollectionsDiffer(th[t].qcs, th[t].names)
       THEN /\ Step(t, [th[t] EXCEPT !.pc = "uq_delete", !.text = NoText])
            /\ UNCHANGED resp
       ELSE Finish(t, "Quote updated.")
    /\ UNCHANGED <<colls, qc, nextCid, nextQid, nreq>>

\* QuoteCollection.delete().where(QuoteCollection.quote == quote).execute()
QuoteResyncDelete(t) ==
    /\ th[t].pc = "uq_delete"
    /\ LET gone == {r \in BagToSet(qc) : r.quote = th[t].quote}
       IN  /\ qc' = DeleteRows(gone)
           /\ Step(t, [th[t] EXCEPT
                  !.pc = IF th[t].names = <<>> THEN "uq_commit" ELSE "uq_get",
                  !.i = 1])
    /\ UNCHANGED <<colls, quotes, nextCid, nextQid, nreq, resp>>

\* Collection.get(Collection.name == collection_name) inside the loop
QuoteResyncGetCollection(t) ==
    /\ th[t].pc = "uq_get"
    /\ LET found == GetCollectionByName(th[t].names[th[t].i])
       IN  IF found = {}
           THEN Raise(t)
           ELSE /\ \E c \in found :
                     Step(t, [th[t] EXCEPT !.pc = "uq_ins", !.coll = c.id])
                /\ UNCHANGED <<colls, quotes, qc, nextCid, nextQid, nreq, resp>>

\* QuoteCollection.create(quote, collection) inside the loop of quote()
QuoteResyncInsert(t) ==
    /\ th[t].pc = "uq_ins"
    /\ InsertMembership(t, "uq_get", "uq_commit")

\* The end of `with db.atomic()` of quote(): commit, 'Quote updated.'
QuoteResyncCommit(t) ==
    /\ th[t].pc = "uq_commit"
    /\ qc' = qc (+) SetToBag(th[t].txm)
    /\ Finish(t, "Quote updated.")
    /\ UNCHANGED <<colls, quotes, nextCid, nextQid, nreq>>

\* Two resyncs of one quote each wait for the index entry the other holds:
\* the database aborts one of them, and the exception leaves db.atomic()
Deadlocked(t) ==
    /\ th[t].pc = "uq_ins"
    /\ \E u \in PairLockedBy(Row(th[t].quote, th[t].coll), t) :
          /\ th[u].pc = "uq_ins"
          /\ t \in PairLockedBy(Row(th[u].quote, th[u].coll), u)

QuoteResyncDeadlock(t) ==
    /\ Deadlocked(t)
    /\ Raise(t)

(***************************************************************************)
(* POST /collections: collections()                                        *)
(***************************************************************************)
\* validate_on_submit, Collection.create(name, user) or 'A collection with
\* that name already exists.'
CollectionsPost(u, name) ==
    /\ Accept
    /\ IF ~ NameValid(name)
       THEN /\ Answer("collections.html")
            /\ UNCHANGED <<colls, nextCid>>
       ELSE IF NameTaken(name, 0)
       THEN /\ Answer("A collection with that name already exists.")
            /\ UNCHANGED <<colls, nextCid>>
       ELSE /\ nextCid <= MaxCid
            /\ colls' = colls \cup {[id |-> nextCid, name |-> name, user |-> u]}
            /\ nextCid' = nextCid + 1
            /\ Answer("302 collections")
    /\ UNCHANGED <<quotes, qc, nextQid>>

(***************************************************************************)
(* GET|POST /collection/<collection_name>: collection()                    *)
(***************************************************************************)
\* The lookup by (name, user) or 'Collection not found', validate_on_submit,
\* the branch on form_delete
CollectionRequest(t, u, name, form) ==
    /\ Free(t)
    /\ Accept
    /\ LET found == GetCollectionOwned(name, u)
       IN  IF found = {}
           THEN Answer("Collection not found")
           ELSE IF ~ (form.method = "POST" /\ NameValid(form.name))
           THEN Answer("collection.html")
           ELSE /\ \E c \in found :
                     Step(t, [Idle EXCEPT
                        !.pc = IF form.del THEN "dc_members" ELSE "rc_save",
                        !.op = "collection", !.user = u, !.coll = c.id,
                        !.name = IF form.del THEN "" ELSE form.name])
                /\ UNCHANGED resp
    /\ UNCHANGED <<colls, quotes, qc, nextCid, nextQid>>

\* collection.delete_instance(recursive=True), first statement:
\* DELETE FROM quotecollection WHERE collection_id = id
CollectionDeleteMemberships(t) ==
    /\ th[t].pc = "dc_members"
    /\ LET gone == {r \in BagToSet(qc) : r.collection = th[t].coll}
       IN  /\ qc' = DeleteRows(gone)
           /\ Step(t, [th[t] EXCEPT !.pc = "dc_coll",
                         !.rows = RowCount(qc) - RowCount(DeleteRows(gone))])
    /\ UNCHANGED <<colls, quotes, nextCid, nextQid, nreq, resp>>

\* collection.delete_instance(recursive=True), second statement:
\* DELETE FROM collection WHERE id = id
CollectionDeleteRow(t) ==
    /\ th[t].pc = "dc_coll"
    /\ ~ CollLocked(th[t].coll)
    /\ IF CollReferenced(th[t].coll)
       THEN Raise(t)
       ELSE /\ colls' = {c \in colls : c.id # th[t].coll}
            /\ Finish(t, "Collection deleted.")
            /\ UNCHANGED <<quotes, qc, nextCid, nextQid, nreq>>

\* collection.name = form.name.data; collection.save() or 'A collection with
\* that name already exists.'
CollectionSave(t) ==
    /\ th[t].pc = "rc_save"
    /\ ~ CollLocked(th[t].coll)
    /\ IF ~ CollMissing(th[t].coll) /\ NameTaken(th[t].name, th[t].coll)
       THEN /\ Finish(t, "A collection with that name already exists.")
            /\ UNCHANGED colls
       ELSE /\ colls' = {IF c.id = th[t].coll
                         THEN [id |-> c.id, name |-> th[t].name,
                               user |-> th[t].user]
                         ELSE c : c \in colls}
            /\ Finish(t, "Collection updated.")
    /\ UNCHANGED <<quotes, qc, nextCid, nextQid, nreq>>

(***************************************************************************)
(* GET /api/collection/<collection_name>/random: collection_random_json()  *)
(***************************************************************************)
\* The responses collection_random_json can send for a name
RandomJson(name) ==
    IF QuotesOfCollectionName(name) = {}
    THEN {[status |-> 404, id |-> 0,
           message |-> "There are no quotes in that collection."]}
    ELSE {[status |-> 200, id |-> q.id, message |-> ""] :
            q \in QuotesOfCollectionName(name)}

CollectionRandomJson(name) ==
    /\ Accept
    /\ \E body \in RandomJson(name) :
          Answer(IF body.status = 200 THEN "200" ELSE body.message)
    /\ UNCHANGED <<colls, quotes, qc, nextCid, nextQid>>

(***************************************************************************)
(* Accounts: passwords and recovery tokens.                                *)
(***************************************************************************)
MaxTokens == 1   \* recovery tokens mailed in one run

SECRET_KEY == "DEBUGSECRETKEY"
Keys       == {SECRET_KEY, "guessed"}
Emails     == {"a@x.com", "b@x.com"}
Passwords  == {"pw12345678", "hunter2hunter2", "short"}
Salts      == {1, 2}
TickDeltas == {1, 599}
TokenLifetime == 600

NoToken == [payload |-> [time |-> 0, email |-> ""], sig |-> <<>>]
NoAResp == [op |-> "none", email |-> "", password |-> "", token |-> NoToken,
            now |-> 0, outcome |-> ""]

\* werkzeug.security.generate_password_hash: a salted one-way digest
GeneratePasswordHash(password, salt) ==
    [salt |-> salt, digest |-> <<"pbkdf2", salt, password>>]

\* werkzeug.security.check_password_hash
CheckPasswordHash(hash, password) ==
    hash.digest = <<"pbkdf2", hash.salt, password>>

\* PasswordField('Password', [InputRequired(), Length(min=8, max=1024)])
PasswordValid(password) == Len(password) >= 8 /\ Len(password) <= 1024

\* StringField('Email', [InputRequired(), Length(max=255), Email()])
EmailValid(email) == email # "" /\ Len(email) <= 255

\* ChangePasswordForm is imported by app.py and not defined in forms.py; it is
\* taken to validate its password as SignupForm does
ChangePasswordFormValid(method, password) ==
    method = "POST" /\ PasswordValid(password)

\* The signature itsdangerous puts on a payload under a key
Sign(key, payload) == <<"hmac", key, payload>>

\* URLSafeSerializer(SECRET_KEY).dumps(payload)
Dumps(payload) == [payload |-> payload, sig |-> Sign(SECRET_KEY, payload)]

\* URLSafeSerializer(SECRET_KEY).loads(token) raises BadSignature
BadSignature(token) == token.sig # Sign(SECRET_KEY, token.payload)

\* An expiry test that already refuses a token at the end of its lifetime
ExpiredAtLifetime(payload, now) == payload.time + TokenLifetime <= now

\* token_data['time'] + 600 < int(time.time())
Expired(payload, now) == payload.time + TokenLifetime < now

\* User.get(User.email == email)
GetUser(email) == {r \in users : r.email = email}

\* An email column without its unique index
EmailTakenNever(email) == FALSE

\* User.email = CharField(unique=True)
EmailTaken(email) == \E r \in users : r.email = email

\* What login() decides for an email and a password
Authenticate(email, password) ==
    \E r \in GetUser(email) : CheckPasswordHash(r.password, password)

\* The tokens a client can present: the mailed ones, a mailed one with its
\* payload altered, and tokens signed with a key that is not the secret
Presentable ==
    LET times    == {0, clock} \cup {k.payload.time : k \in issued}
        payloads == [time : times, email : Emails]
    IN  issued
        \cup {[payload |-> p, sig |-> k.sig] : p \in payloads, k \in issued}
        \cup {[payload |-> p, sig |-> Sign("guessed", p)] : p \in payloads}

AReply(op, email, password, token, now, outcome) ==
    /\ aresp' = [op |-> op, email |-> email, password |-> password,
                 token |-> token, now |-> now, outcome |-> outcome]
    /\ UNCHANGED storeVars

\* POST /signup: signup()
Signup(email, password, salt) ==
    /\ IF ~ (EmailValid(email) /\ PasswordValid(password))
       THEN /\ AReply("signup", email, password, NoToken, 0, "signup.html")
            /\ UNCHANGED users
       ELSE IF EmailTaken(email)
       THEN /\ AReply("signup", email, password, NoToken, 0,
                      "An account with that email already exists.")
            /\ UNCHANGED users
       ELSE /\ users' = users \cup
                    {[id |-> Cardinality(users) + 1, email |-> email,
                      password |-> GeneratePasswordHash(password, salt)]}
            /\ AReply("signup", email, password, NoToken, 0,
                      "Account created.")
    /\ UNCHANGED <<clock, nticks, issued>>

\* POST /login: login()
Login(email, password) ==
    /\ IF ~ (EmailValid(email) /\ PasswordValid(password))
       THEN AReply("login", email, password, NoToken, 0, "login.html")
       ELSE IF GetUser(email) = {}
       THEN AReply("login", email, password, NoToken, 0,
                   "Incorrect email or password.")
       ELSE \E r \in GetUser(email) :
               IF CheckPasswordHash(r.password, password)
               THEN AReply("login", email, password, NoToken, 0, "302 index")
               ELSE AReply("login", email, password, NoToken, 0,
                           "Incorrect email or password.")
    /\ UNCHANGED <<users, clock, nticks, issued>>

\* POST /forgot: forgot() and send_recovery_email()
Forgot(email) ==
    /\ IF ~ EmailValid(email)
       THEN /\ AReply("forgot", email, "", NoToken, 0, "forgot.html")
            /\ UNCHANGED issued
       ELSE IF GetUser(email) = {}
       THEN /\ AReply("forgot", email, "", NoToken, 0,
                      "No account with that email was found.")
            /\ UNCHANGED issued
       ELSE /\ Cardinality(issued) < MaxTokens
            /\ issued' = issued \cup {Dumps([time |-> clock, email |-> email])}
            /\ AReply("forgot", email, "", NoToken, 0,
                      "A recovery link will be sent to your email.")
    /\ UNCHANGED <<users, clock, nticks>>

\* GET|POST /recover-password/<token>: recover_password()
RecoverPassword(token, method, password, salt) ==
    /\ IF BadSignature(token)
       THEN /\ AReply("recover", "", "", token, clock,
                      "Failed to validate token.")
            /\ UNCHANGED users
       ELSE IF Expired(token.payload, clock)
       THEN /\ AReply("recover", "", "", token, clock, "That link has expired")
            /\ UNCHANGED users
       ELSE IF ~ ChangePasswordFormValid(method, password)
       THEN /\ AReply("recover", "", "", token, clock, "recover_password.html")
            /\ UNCHANGED users
       ELSE IF GetUser(token.payload.email) = {}
       THEN /\ AReply("recover", "", "", token, clock,
                      "That user does not exist.")
            /\ UNCHANGED users
       ELSE /\ users' = {IF r.email = token.payload.email
                         THEN [r EXCEPT !.password =
                                   GeneratePasswordHash(password, salt)]
                         ELSE r : r \in users}
            /\ AReply("recover", "", password, token, clock,
                      "Your password has been updated.")
    /\ UNCHANGED <<clock, nticks, issued>>

\* time.time() advances
Tick(d) ==
    /\ nticks < MaxTicks
    /\ nticks' = nticks + 1
    /\ clock' = clock + d
    /\ UNCHANGED <<users, issued, aresp>>
    /\ UNCHANGED storeVars

(***************************************************************************)
(* The store served by concurrent workers.                                 *)
(***************************************************************************)
\* The two accounts are registered and signed in
Registered ==
    {[id |-> 1, email |-> "a@x.com",
      password |-> GeneratePasswordHash("pw12345678", 1)],
     [id |-> 2, email |-> "b@x.com",
      password |-> GeneratePasswordHash("hunter2hunter2", 2)]}

Init ==
    /\ colls = {}
    /\ quotes = {}
    /\ qc = EmptyBag
    /\ nextCid = 1
    /\ nextQid = 1
    /\ th = [t \in Workers |-> Idle]
    /\ resp = NoResp
    /\ nreq = 0
    /\ users = Registered
    /\ clock = 0
    /\ nticks = 0
    /\ issued = {}
    /\ aresp = NoAResp

\* The requests a client can send
QuotesPosts(t) ==
    /\ Free(t)
    /\ \E u \in UserIds, x \in Texts \cup {NoText}, ns \in NameLists :
          QuotesPost(t, u, x, ns)

QuoteRequests(t) ==
    /\ Free(t)
    /\ \E u \in UserIds, id \in QuoteIds : QuoteRequest(t, u, id)

QuoteFormRead(t) ==
    /\ th[t].pc = "q_form"
    /\ \E f \in QuoteForms : QuoteForm(t, f)

CollectionRequests(t) ==
    /\ Free(t)
    /\ \E u \in UserIds, n \in Names, f \in CollectionForms :
          CollectionRequest(t, u, n, f)

CollectionsPosts ==
    \E u \in UserIds, n \in Names \cup BadNames : CollectionsPost(u, n)

CollectionRandomJsons ==
    \E n \in Names : CollectionRandomJson(n)

Next ==
    \/ \E t \in Workers :
          \/ QuotesPosts(t)
          \/ QuotesGetCollection(t)
          \/ QuotesInsertMembership(t)
          \/ QuotesCommit(t)
          \/ QuoteRequests(t)
          \/ QuoteReadCollections(t)
          \/ QuoteFormRead(t)
          \/ QuoteDeleteMemberships(t)
          \/ QuoteDeleteRow(t)
          \/ QuoteSave(t)
          \/ QuoteResyncDelete(t)
          \/ QuoteResyncGetCollection(t)
          \/ QuoteResyncInsert(t)
          \/ QuoteResyncCommit(t)
          \/ QuoteResyncDeadlock(t)
          \/ CollectionRequests(t)
          \/ CollectionDeleteMemberships(t)
          \/ CollectionDeleteRow(t)
          \/ CollectionSave(t)
    \/ CollectionsPosts
    \/ CollectionRandomJsons

Spec == Init /\ [][Next]_vars

(***************************************************************************)
(* The store served one request at a time.                                 *)
(***************************************************************************)
AllIdle == \A t \in Workers : th[t].pc = "idle"

SeqNext ==
    \/ AllIdle /\ QuotesPosts(1)
    \/ AllIdle /\ QuoteRequests(1)
    \/ AllIdle /\ CollectionRequests(1)
    \/ AllIdle /\ CollectionsPosts
    \/ AllIdle /\ CollectionRandomJsons
    \/ QuotesGetCollection(1)
    \/ QuotesInsertMembership(1)
    \/ QuotesCommit(1)
    \/ QuoteReadCollections(1)
    \/ QuoteFormRead(1)
    \/ QuoteDeleteMemberships(1)
    \/ QuoteDeleteRow(1)
    \/ QuoteSave(1)
    \/ QuoteResyncDelete(1)
    \/ QuoteResyncGetCollection(1)
    \/ QuoteResyncInsert(1)
    \/ QuoteResyncCommit(1)
    \/ CollectionDeleteMemberships(1)
    \/ CollectionDeleteRow(1)
    \/ CollectionSave(1)

SeqSpec == Init /\ [][SeqNext]_vars

(***************************************************************************)
(* The account handlers, from an empty user table.                         *)
(***************************************************************************)
AuthInit ==
    /\ colls = {}
    /\ quotes = {}
    /\ qc = EmptyBag
    /\ nextCid = 1
    /\ nextQid = 1
    /\ th = [t \in Workers |-> Idle]
    /\ resp = NoResp
    /\ nreq = 0
    /\ users = {}
    /\ clock = 0
    /\ nticks = 0
    /\ issued = {}
    /\ aresp = NoAResp

Signups == \E e \in Emails \cup {""}, p \in Passwords, k \in Salts : Signup(e, p, k)

Logins == \E e \in Emails \cup {""}, p \in Passwords : Login(e, p)

Forgots == \E e \in Emails \cup {""} : Forgot(e)

\* The form of a request is read only once its token has been accepted
RecoverPasswords ==
    \E k \in Presentable :
        IF BadSignature(k) \/ Expired(k.payload, clock)
        THEN RecoverPassword(k, "GET", "", 1)
        ELSE \E m \in Methods, p \in Passwords, z \in Salts :
                RecoverPassword(k, m, p, z)

Ticks == \E d \in TickDeltas : Tick(d)

AuthNext == Signups \/ Logins \/ Forgots \/ RecoverPasswords \/ Ticks

AuthSpec == AuthInit /\ [][AuthNext]_vars

(***************************************************************************)
(* Properties.                                                             *)
(***************************************************************************)
RowsOf(id, table) == {r \in BagToSet(table) : r.quote = id}

Owns(u, id) == \E q \in quotes : q.id = id /\ q.user = u

\* C1: a request for /quotes/<id> (view, update or delete) by a user who does
\* not own a quote with that id, whether the quote is another user's or does
\* not exist, is answered 'Quote not found' by its first statement: it is
\* handed to no worker and no table changes.
C1_CrossUserNotFound ==
    [][nreq' # nreq =>
          \A t \in Workers, u \in UserIds, id \in QuoteIds :
             (~ Owns(u, id) /\ QuoteRequest(t, u, id))
                => /\ resp' = "Quote not found"
                   /\ th' = th
                   /\ UNCHANGED <<quotes, qc, colls>>]_vars

\* C1 witness: user B has just been answered 'Quote not found' for the id of
\* a quote of user A that is in the table.
C1_Witness ==
    /\ resp = "Quote not found"
    /\ \E q \in quotes : q.user = "A" /\ q.id = 1
    /\ \A q \in quotes : q.user = "A"

\* C2: creating a quote is all or nothing.  A request that is answered at
\* once writes nothing, and a creation is taken up only when every submitted
\* name is a collection of the caller and the text is not empty; a name
\* that no longer resolves to a collection of the caller ends the request with
\* an error; every step of the request but its commit leaves the quote and
\* membership tables as they are; the commit adds the quote and exactly one
\* membership per submitted name, each to a collection of the caller.
C2_CreateQuoteAtomic ==
    [][\A t \in Workers :
        /\ th' = th => UNCHANGED <<quotes, qc>>
        /\ (th[t] = Idle /\ th'[t].op = "quotes")
              => /\ ChoicesValid(th'[t].names, Choices(th'[t].user))
                 /\ \A q \in th'[t].txq : ContentValid(q.content)
                 /\ UNCHANGED <<quotes, qc>>
        /\ (th[t].pc = "cq_get" /\ th'[t] # th[t])
              => IF \E c \in colls : /\ c.name = th[t].names[th[t].i]
                                     /\ c.user = th[t].user
                 THEN \E c \in colls : /\ c.name = th[t].names[th[t].i]
                                        /\ c.user = th[t].user
                                        /\ th'[t].coll = c.id
                 ELSE th'[t] = Idle /\ resp' = "500"
        /\ (th[t].pc \in {"cq_get", "cq_ins"} /\ th'[t] # th[t])
              => UNCHANGED <<quotes, qc>>
        /\ (th[t].pc = "cq_commit" /\ th'[t] # th[t])
              => /\ resp' = "302 quotes"
                 /\ ~ \E q \in quotes : q.id = th[t].quote
                 /\ \E q \in quotes' : /\ q.id = th[t].quote
                                       /\ q.user = th[t].user
                                       /\ quotes' = quotes \cup {q}
                                       /\ q \notin quotes
                 /\ RowsOf(th[t].quote, qc) = {}
                 /\ Cardinality(RowsOf(th[t].quote, qc')) = Len(th[t].names)
                 /\ \A r \in RowsOf(th[t].quote, qc') :
                       /\ CopiesIn(r, qc') = 1
                       /\ \E c \in colls' : /\ c.id = r.collection
                                            /\ c.user = th[t].user
                 /\ \A r \in BagToSet(qc) \cup BagToSet(qc') :
                       r.quote # th[t].quote
                          => CopiesIn(r, qc') = CopiesIn(r, qc)]_vars

\* C2 witness: a quote creation has failed after its quote row was inserted
\* (its id is used up) and nothing of it is in the tables.
C2_Witness ==
    /\ AllIdle
    /\ resp = "500"
    /\ nextQid = 2
    /\ nreq <= 3
    /\ quotes = {}
    /\ qc = EmptyBag

\* C3: served alone, an update of an owned quote that ends 'Quote updated.'
\* leaves the quote a member of exactly the collections named in the form,
\* once each; and when the names submitted are, as a set, the names of its
\* collections, no step of the update writes the membership table.
C3_UpdateMemberships ==
    [][\A t \in Workers :
        /\ (th[t].op = "quote" /\ th'[t].pc = "idle" /\ th[t].pc # "idle"
              /\ resp' = "Quote updated.")
              => /\ {c.name : c \in {d \in colls' :
                        Row(th[t].quote, d.id) \in BagToSet(qc')}}
                       = Range(th[t].names)
                 /\ Cardinality(RowsOf(th[t].quote, qc'))
                       = Cardinality(Range(th[t].names))
                 /\ \A r \in RowsOf(th[t].quote, qc') : CopiesIn(r, qc') = 1
        /\ (th[t].pc \in {"uq_save", "uq_delete", "uq_get", "uq_ins",
                          "uq_commit"}
              /\ th[t].qcs = Range(th[t].names))
              => /\ qc' = qc
                 /\ th'[t] = Idle
                 /\ resp' = "Quote updated."]_vars

\* C3 witness: the update of a quote of collection x to the names x, y is
\* about to commit its two memberships.
C3_Witness ==
    \E t \in Workers :
        /\ th[t].pc = "uq_commit"
        /\ th[t].qcs = {"x"}
        /\ Range(th[t].names) = {"x", "y"}
        /\ Cardinality(th[t].txm) = 2

\* C4: every membership row references a quote and a collection that exist;
\* a deletion answered 'Quote deleted.' leaves neither the quote nor a
\* membership of it, and one answered 'Collection deleted.' leaves neither the
\* collection nor a membership in it.
C4_NoOrphans ==
    /\ [](\A r \in BagToSet(qc) :
            /\ \E q \in quotes : q.id = r.quote
            /\ \E c \in colls : c.id = r.collection)
    /\ [][\A t \in Workers :
            /\ (th[t].pc = "dq_quote" /\ th'[t].pc = "idle"
                  /\ resp' = "Quote deleted.")
                  => /\ ~ \E q \in quotes' : q.id = th[t].quote
                     /\ ~ \E r \in BagToSet(qc') : r.quote = th[t].quote
            /\ (th[t].pc = "dc_coll" /\ th'[t].pc = "idle"
                  /\ resp' = "Collection deleted.")
                  => /\ ~ \E c \in colls' : c.id = th[t].coll
                     /\ ~ \E r \in BagToSet(qc') :
                             r.collection = th[t].coll]_vars

\* C4 witness: the deletion of a quote has removed its memberships and is
\* about to remove the quote.
C4_Witness ==
    \E t \in Workers : th[t].pc = "dq_quote" /\ th[t].rows > 0

\* C5: the random-quote response for a collection that exists and is empty
\* differs from the response for a name no collection has.
C5_EmptyDistinctFromMissing ==
    \A n \in Names, m \in Names :
        (/\ \E c \in colls : c.name = n
         /\ QuotesOfCollectionName(n) = {}
         /\ ~ \E c \in colls : c.name = m)
           => RandomJson(n) # RandomJson(m)

\* C6: a recovery token whose signature does not verify is answered 'Failed
\* to validate token.' whatever its age; one that verifies and is older than
\* 600 seconds is answered 'That link has expired'; one that verifies and is
\* at most 600 seconds old is accepted; and a request answered with either of
\* the two failures changes no password.
C6_TokenOutcomes ==
    /\ [](aresp.op = "recover" =>
            LET k   == aresp.token
                ok  == k.sig = Sign(SECRET_KEY, k.payload)
                age == aresp.now - k.payload.time
            IN  /\ ~ ok => aresp.outcome = "Failed to validate token."
                /\ (ok /\ age > 600) => aresp.outcome = "That link has expired"
                /\ (ok /\ age <= 600) =>
                      aresp.outcome \in {"recover_password.html",
                                         "Your password has been updated.",
                                         "That user does not exist."})
    /\ [][(aresp'.op = "recover"
             /\ aresp'.outcome \in {"Failed to validate token.",
                                    "That link has expired"})
            => users' = users]_vars

\* C6 witness: a mailed token presented 601 seconds after it was signed has
\* been answered 'That link has expired'.
C6_Witness ==
    /\ aresp.op = "recover"
    /\ aresp.token \in issued
    /\ aresp.now - aresp.token.payload.time = 601
    /\ aresp.outcome = "That link has expired"

\* C7: no two accounts share an email.  A valid signup with an email that has
\* no account creates exactly one account, which then authenticates with the
\* password signed up and with no other; a valid signup with an email that
\* has an account is answered with the conflict message and leaves the user
\* table, and so what authenticates, as it was; login succeeds exactly when
\* the account's stored hash verifies the password.
C7_DuplicateSignup ==
    /\ [](\A r1 \in users, r2 \in users : r1.email = r2.email => r1 = r2)
    /\ [][(aresp'.op = "signup" /\ <<aresp, users>>' # <<aresp, users>>
             /\ EmailValid(aresp'.email) /\ PasswordValid(aresp'.password))
            => IF \E r \in users : r.email = aresp'.email
               THEN /\ aresp'.outcome
                         = "An account with that email already exists."
                    /\ users' = users
               ELSE /\ aresp'.outcome = "Account created."
                    /\ Cardinality(users') = Cardinality(users) + 1
                    /\ users \subseteq users'
                    /\ \A p \in Passwords :
                          (\E r \in users' : /\ r.email = aresp'.email
                                             /\ CheckPasswordHash(r.password, p))
                             <=> p = aresp'.password]_vars
    /\ [][(aresp'.op = "login" /\ aresp' # aresp
             /\ PasswordValid(aresp'.password))
            => (aresp'.outcome = "302 index"
                  <=> \E r \in users : /\ r.email = aresp'.email
                                       /\ CheckPasswordHash(r.password,
                                                            aresp'.password))]_vars

\* C7 witness: a second signup with the email of an account, and a password
\* that is not the account's, has been answered with the conflict message.
C7_Witness ==
    /\ aresp.op = "signup"
    /\ aresp.outcome = "An account with that email already exists."
    /\ ~ Authenticate(aresp.email, aresp.password)
    /\ \E p \in Passwords : Authenticate(aresp.email, p)

\* C8: no two collections share a name; creating a collection under a name
\* that is taken, and renaming a collection to a name another collection
\* holds, are answered with the conflict message and leave the collection
\* table as it was.
C8_UniqueNames ==
    /\ [](\A c \in colls, d \in colls : c.name = d.name => c = d)
    /\ [][/\ nreq' # nreq =>
                \A u \in UserIds, n \in Names :
                   ((\E c \in colls : c.name = n) /\ CollectionsPost(u, n))
                      => /\ resp' = "A collection with that name already exists."
                         /\ colls' = colls
          /\ \A t \in Workers :
                (/\ th[t].pc = "rc_save"
                 /\ th'[t] # th[t]
                 /\ \E c \in colls : c.id = th[t].coll
                 /\ \E c \in colls : c.name = th[t].name /\ c.id # th[t].coll)
                   => /\ resp' = "A collection with that name already exists."
                      /\ colls' = colls]_vars

\* C8 witness: with two collections in the table, the third request, which
\* asks for a name one of them has, has been answered with the conflict
\* message.
C8_Witness ==
    /\ resp = "A collection with that name already exists."
    /\ Cardinality(colls) = 2
    /\ nextCid = 3
    /\ nreq = 3

\* C9: served alone, an update of a quote that fails while it re-inserts the
\* memberships leaves the quote a member of the collections it was a member
\* of before the request.
C9_ResyncRolledBack ==
    [][\A t \in Workers :
          (th[t].pc \in {"uq_get", "uq_ins"} /\ th'[t].pc = "idle"
             /\ resp' = "500")
             => {c.name : c \in {d \in colls' :
                    Row(th[t].quote, d.id) \in BagToSet(qc')}} = th[t].qcs]_vars

\* C10: every membership row links a quote and a collection of one user.
C10_SameOwner ==
    \A r \in BagToSet(qc) : \A q \in quotes, c \in colls :
        (q.id = r.quote /\ c.id = r.collection) => q.user = c.user

====
